---------------------------- MODULE Spec2Model ----------------------------
(***************************************************************************)
(* A model of lib/loggly/client.js: the Loggly client's log operation      *)
(* (truncation, serialization, tag filtering, request assembly) and the    *)
(* completion handler it registers with the delivery layer.                *)
(*                                                                         *)
(* Strings.  A JavaScript string is a sequence of UTF-16 code units.  It   *)
(* is represented run-length encoded, as a sequence of runs [c, n]: the    *)
(* code unit c repeated n times, so that strings around EVENT_SIZE code    *)
(* units long are values the model can hold.  A string is kept in normal   *)
(* form: no empty run, no two neighbouring runs of the same code unit, so  *)
(* that equal strings are equal values.                                    *)
(***************************************************************************)
EXTENDS Integers, Sequences, FiniteSets, TLC

\* let EVENT_SIZE = 1000 * 1000
EVENT_SIZE == 1000000

\* tag.length <= 64
TAG_MAX_LENGTH == 64

\* Bounds of the model.
MaxCalls == 2

NULL == [kind |-> "null"]

----------------------------------------------------------------------------
(* Code units and their UTF-8 widths *)

\* The two non-ASCII code units of the model: U+00E9 (2 bytes in UTF-8) and
\* U+20AC (3 bytes in UTF-8).  Every other code unit is ASCII (1 byte).
TwoByteUnits == {"U+00E9"}
ThreeByteUnits == {"U+20AC"}

\* Buffer.byteLength of a one-code-unit string (utf8).
UnitBytes(c) ==
  IF c \in TwoByteUnits THEN 2 ELSE IF c \in ThreeByteUnits THEN 3 ELSE 1

Run(c, n) == [c |-> c, n |-> n]

\* s + t for two strings in normal form.
RECURSIVE Concat(_, _)
Concat(s, t) ==
  IF s = <<>> THEN t
  ELSE IF t = <<>> THEN s
  ELSE IF s[Len(s)].c = t[1].c
    THEN SubSeq(s, 1, Len(s) - 1)
           \o <<Run(t[1].c, s[Len(s)].n + t[1].n)>>
           \o Tail(t)
    ELSE s \o t

\* The string of the code units cs, in order (cs a sequence of code units).
RECURSIVE Str(_)
Str(cs) ==
  IF cs = <<>> THEN <<>> ELSE Concat(<<Run(cs[1], 1)>>, Str(Tail(cs)))

\* The code unit c repeated n times.
Rep(c, n) == IF n = 0 THEN <<>> ELSE <<Run(c, n)>>

\* s.length
RECURSIVE Length(_)
Length(s) == IF s = <<>> THEN 0 ELSE s[1].n + Length(Tail(s))

\* Buffer.byteLength(s)
RECURSIVE ByteLength(_)
ByteLength(s) ==
  IF s = <<>> THEN 0 ELSE s[1].n * UnitBytes(s[1].c) + ByteLength(Tail(s))

\* s.slice(0, k), k >= 0: the first k code units of s.
RECURSIVE Slice(_, _)
Slice(s, k) ==
  IF s = <<>> \/ k = 0 THEN <<>>
  ELSE IF s[1].n >= k THEN <<Run(s[1].c, k)>>
  ELSE <<s[1]>> \o Slice(Tail(s), k - s[1].n)

\* s[i], i >= 0 (a code unit), or "" past the end.
RECURSIVE CharAt(_, _)
CharAt(s, i) ==
  IF s = <<>> THEN ""
  ELSE IF i < s[1].n THEN s[1].c
  ELSE CharAt(Tail(s), i - s[1].n)

\* The code units of s.
Units(s) == {s[i].c : i \in 1..Len(s)}

----------------------------------------------------------------------------
(* Values: what a caller may pass as msg *)

\* A string value.
StringV(s) == [kind |-> "string", str |-> s]

\* A plain object with the single own property k: v.  With cyclic = TRUE the
\* object also has a property "self" that refers to the object itself.
ObjectV(k, v, cyclic) == [kind |-> "object", key |-> k, val |-> v, cyclic |-> cyclic]

\* An array of values.
ArrayV(items) == [kind |-> "array", items |-> items]

\* typeof(msg)
TypeOf(v) == IF v.kind = "string" THEN "string" ELSE "object"

\* msg instanceof Object
InstanceOfObject(v) == v.kind \in {"object", "array"}

\* Array.isArray(msg)
IsArray(v) == v.kind = "array"

\* Whether the value refers to itself, directly or in an element.
RECURSIVE IsCyclic(_)
IsCyclic(v) ==
  CASE v.kind = "string" -> FALSE
    [] v.kind = "object" -> v.cyclic \/ IsCyclic(v.val)
    [] v.kind = "array" -> \E i \in 1..Len(v.items) : IsCyclic(v.items[i])

----------------------------------------------------------------------------
(* JSON.stringify and JSON.parse over these values *)

DQ == "\""
BS == "\\"
SyntaxUnits == {DQ, BS, "{", "}", "[", "]", ":", ","}

\* The outcome of a call that threw, and of one that returned a string.
Thrown(what) == [kind |-> "thrown", what |-> what]
Returned(s) == [kind |-> "returned", value |-> s]
IsThrown(r) == r.kind = "thrown"

\* n copies of the two code units \ c.
RECURSIVE EscapedRun(_, _)
EscapedRun(c, n) ==
  IF n = 0 THEN <<>> ELSE Concat(Str(<<BS, c>>), EscapedRun(c, n - 1))

\* JSON's escaping of a string's code units: " and \ get a \ in front.
RECURSIVE Escape(_)
Escape(s) ==
  IF s = <<>> THEN <<>>
  ELSE Concat(IF s[1].c \in {DQ, BS} THEN EscapedRun(s[1].c, s[1].n) ELSE <<s[1]>>,
              Escape(Tail(s)))

Quote(s) == Concat(Str(<<DQ>>), Concat(Escape(s), Str(<<DQ>>)))

\* JSON.stringify(v) of a value that does not refer to itself.
RECURSIVE Encode(_)
RECURSIVE EncodeItems(_)
Encode(v) ==
  CASE v.kind = "string" -> Quote(v.str)
    [] v.kind = "object" ->
         Concat(Str(<<"{">>),
           Concat(Quote(v.key),
             Concat(Str(<<":">>), Concat(Encode(v.val), Str(<<"}">>)))))
    [] v.kind = "array" ->
         Concat(Str(<<"[">>), Concat(EncodeItems(v.items), Str(<<"]">>)))
EncodeItems(items) ==
  IF items = <<>> THEN <<>>
  ELSE IF Len(items) = 1 THEN Encode(items[1])
  ELSE Concat(Encode(items[1]), Concat(Str(<<",">>), EncodeItems(Tail(items))))

\* JSON.stringify(v): the text, or the TypeError "Converting circular
\* structure to JSON".
JSONStringify(v) == IF IsCyclic(v) THEN Thrown("TypeError") ELSE Returned(Encode(v))

\* The value with every reference to itself left out: what the cycle
\* replacer noop (it returns undefined) makes json-stringify-safe encode.
RECURSIVE Decycled(_)
Decycled(v) ==
  CASE v.kind = "string" -> v
    [] v.kind = "object" -> ObjectV(v.key, Decycled(v.val), FALSE)
    [] v.kind = "array" ->
         ArrayV([i \in 1..Len(v.items) |-> Decycled(v.items[i])])

\* stringifySafe(msg, null, null, noop)
StringifySafe(v) == Encode(Decycled(v))

\* The tokens of a text: each syntax code unit on its own, the other runs whole.
RECURSIVE Tokens(_)
Tokens(s) ==
  IF s = <<>> THEN <<>>
  ELSE IF s[1].c \in SyntaxUnits
    THEN [i \in 1..s[1].n |-> Run(s[1].c, 1)] \o Tokens(Tail(s))
    ELSE <<s[1]>> \o Tokens(Tail(s))

ParseFail == [ok |-> FALSE]
Parsed(v, rest) == [ok |-> TRUE, val |-> v, rest |-> rest]

\* The string literal's code units up to its closing quote; acc is what was read.
RECURSIVE ScanString(_, _)
ScanString(toks, acc) ==
  IF toks = <<>> THEN ParseFail
  ELSE IF toks[1].c = DQ THEN Parsed(StringV(acc), Tail(toks))
  ELSE IF toks[1].c = BS
    THEN IF Len(toks) >= 2 /\ toks[2].c \in {DQ, BS}
           THEN ScanString(Tail(Tail(toks)), Concat(acc, <<toks[2]>>))
           ELSE ParseFail
  ELSE ScanString(Tail(toks), Concat(acc, <<toks[1]>>))

RECURSIVE ParseValue(_)
RECURSIVE ParseItems(_, _)
ParseValue(toks) ==
  IF toks = <<>> THEN ParseFail
  ELSE IF toks[1].c = DQ THEN ScanString(Tail(toks), <<>>)
  ELSE IF toks[1].c = "{" THEN
    LET k == IF Len(toks) >= 2 /\ toks[2].c = DQ
               THEN ScanString(Tail(Tail(toks)), <<>>) ELSE ParseFail
    IN IF ~k.ok \/ k.rest = <<>> THEN ParseFail
       ELSE IF k.rest[1].c # ":" THEN ParseFail
       ELSE LET v == ParseValue(Tail(k.rest))
            IN IF ~v.ok \/ v.rest = <<>> THEN ParseFail
               ELSE IF v.rest[1].c # "}" THEN ParseFail
               ELSE Parsed(ObjectV(k.val.str, v.val, FALSE), Tail(v.rest))
  ELSE IF toks[1].c = "[" THEN
    IF Len(toks) >= 2 /\ toks[2].c = "]"
      THEN Parsed(ArrayV(<<>>), Tail(Tail(toks)))
      ELSE ParseItems(Tail(toks), <<>>)
  ELSE ParseFail
ParseItems(toks, acc) ==
  LET v == ParseValue(toks)
  IN IF ~v.ok \/ v.rest = <<>> THEN ParseFail
     ELSE IF v.rest[1].c = "]" THEN Parsed(ArrayV(Append(acc, v.val)), Tail(v.rest))
     ELSE IF v.rest[1].c = "," THEN ParseItems(Tail(v.rest), Append(acc, v.val))
     ELSE ParseFail

\* JSON.parse(text): the value, or the SyntaxError.
JSONParse(s) ==
  LET r == ParseValue(Tokens(s))
  IN IF r.ok THEN (IF r.rest = <<>> THEN r.val ELSE Thrown("SyntaxError"))
     ELSE Thrown("SyntaxError")

----------------------------------------------------------------------------
(* The helpers of client.js *)

\* function stringify(msg): JSON.stringify, and on its exception the
\* cycle-safe encoder.
stringify(msg) ==
  IF IsThrown(JSONStringify(msg)) THEN StringifySafe(msg) ELSE JSONStringify(msg).value

\* function truncateLargeMessage(message); message is a string.
truncateLargeMessage(message) ==
  LET maximumBytesAllowedToLoggly == EVENT_SIZE
      bytesLengthOfLogMessage == ByteLength(message)
  IN IF bytesLengthOfLogMessage > maximumBytesAllowedToLoggly
       THEN [message |-> Slice(message, maximumBytesAllowedToLoggly),
             isMessageTruncated |-> TRUE]
       ELSE [message |-> message, isMessageTruncated |-> FALSE]

\* \w and \d: the ASCII letters, digits and the underscore, as far as the
\* model's code units go.
WordUnits == {"a", "b", "d", "g", "k", "o", "t", "x", "1", "_"}

\* The class [\w\d-_.]
SolidUnits == WordUnits \cup {"-", "."}

\* isSolid.test(tag) for isSolid = /^[\w\d][\w\d-_.]+/: the pattern is
\* anchored at the start only, so it looks at the first two code units.
isSolid(tag) == CharAt(tag, 0) \in WordUnits /\ CharAt(tag, 1) \in SolidUnits

\* JavaScript's truthiness of a tags argument: null and the empty string
\* are falsy, an array (an empty one too) and a function are truthy.
Truthy(tags) ==
  CASE tags.kind = "null" -> FALSE
    [] tags.kind = "string" -> tags.str # <<>>
    [] OTHER -> TRUE

\* Loggly.prototype.tagFilter(tags): tags is one candidate (a string value)
\* or an array of candidates; the result is a sequence of strings.
tagFilter(tags) ==
  LET list == IF ~IsArray(tags) THEN <<tags.str>>
              ELSE [i \in 1..Len(tags.items) |-> tags.items[i].str]
  IN SelectSeq(list,
       LAMBDA tag : tag # <<>> /\ isSolid(tag) /\ Length(tag) <= TAG_MAX_LENGTH)

\* tags.join(','), tags a sequence of strings.
RECURSIVE Join(_)
Join(tags) ==
  IF tags = <<>> THEN <<>>
  ELSE IF Len(tags) = 1 THEN tags[1]
  ELSE Concat(tags[1], Concat(Str(<<",">>), Join(Tail(tags))))

\* a.push(...b) in place of a.concat(b): the receiver grows.
ArrayPush(a, b) == [result |-> a \o b, receiver |-> a \o b]

\* a.concat(b) for two arrays: the new array, and the receiver a as the
\* call leaves it (concat does not change its receiver).
ArrayConcat(a, b) == [result |-> a \o b, receiver |-> a]

\* common.serialize(msg), of lib/loggly/common.js: the text form of a
\* structured value that plain mode emits.
CommonSerialize(msg) == Encode(msg)

----------------------------------------------------------------------------
(* The constructor *)

HOST == "logs-01.loggly.com"
TOKEN == "token"

\* A URL, as the literal it was built from and the text appended to it.
Url(parts) == [parts |-> parts, appended |-> <<>>]

\* function Loggly(options), for options that name a subdomain and a token.
\* namesUseTagHeader is 'useTagHeader' in options.  The fields log only hands
\* on to the delivery layer as they are (auth, proxy, userAgent,
\* bufferOptions, networkErrorsOnConsole, appName) are left out.
Loggly(options) ==
  LET host == HOST
      url == <<"https://", host>>
  IN [host |-> host,
      json |-> options.json,
      useTagHeader |-> IF options.namesUseTagHeader THEN options.useTagHeader ELSE TRUE,
      isBulk |-> options.isBulk,
      tags |-> IF Truthy(options.tags)
                 THEN [kind |-> "array", list |-> tagFilter(options.tags)]
                 ELSE NULL,
      urls |-> [log |-> Url(url \o <<"inputs", TOKEN>>),
                bulk |-> Url(url \o <<"bulk", TOKEN>>)]]

----------------------------------------------------------------------------
(* Loggly.prototype.log *)

\* serialize without its instanceof test: every message goes into the envelope.
serializeEnvelopeAlways(self, msg) ==
  IF self.json
    THEN stringify(ObjectV(Str(<<"m", "e", "s", "s", "a", "g", "e">>), msg, FALSE))
    ELSE (IF InstanceOfObject(msg) THEN CommonSerialize(msg) ELSE msg.str)

\* The function serialize(msg) local to log.
serialize(self, msg) ==
  IF InstanceOfObject(msg)
    THEN (IF self.json THEN stringify(msg) ELSE CommonSerialize(msg))
    ELSE (IF self.json
            THEN stringify(ObjectV(Str(<<"m", "e", "s", "s", "a", "g", "e">>), msg, FALSE))
            ELSE msg.str)

\* Lines 119-127: the message after the truncation step, with the
\* truncatedMessageObject; or the exception JSON.stringify threw.
TruncationStep(msg) ==
  IF TypeOf(msg) = "object"
    THEN LET stringifiedMessage == JSONStringify(msg)
         IN IF IsThrown(stringifiedMessage) THEN stringifiedMessage
            ELSE LET t == truncateLargeMessage(stringifiedMessage.value)
                 IN [kind |-> "ok", truncatedMessageObject |-> t,
                     msg |-> IF t.isMessageTruncated THEN StringV(t.message) ELSE msg]
    ELSE LET t == truncateLargeMessage(msg.str)
         IN [kind |-> "ok", truncatedMessageObject |-> t,
             msg |-> IF t.isMessageTruncated THEN StringV(t.message) ELSE msg]

\* Line 149: the body, a string or (bulk mode, an array) an array of strings.
Body(self, msg) ==
  IF self.isBulk /\ IsArray(msg)
    THEN ArrayV([i \in 1..Len(msg.items) |-> StringV(serialize(self, msg.items[i]))])
    ELSE StringV(serialize(self, msg))

\* Lines 171-173: the tags of the call, this.tags as the expression leaves
\* it, and what this.tagFilter(tags) returned (null when it was not called).
ResolveTags(self, tags) ==
  IF Truthy(tags)
    THEN (IF self.tags # NULL
            THEN LET c == ArrayConcat(self.tags.list, tagFilter(tags))
                 IN [tags |-> [kind |-> "array", list |-> c.result],
                     thisTags |-> [kind |-> "array", list |-> c.receiver],
                     filtered |-> [kind |-> "array", list |-> tagFilter(tags)]]
            ELSE [tags |-> [kind |-> "array", list |-> tagFilter(tags)],
                  thisTags |-> self.tags,
                  filtered |-> [kind |-> "array", list |-> tagFilter(tags)]])
    ELSE [tags |-> self.tags, thisTags |-> self.tags, filtered |-> NULL]

\* The tags attached on "if (tags)" alone, without the test of tags.length.
AttachTagsWithoutLengthTest(self, logOptions, tags) ==
  IF tags # NULL
    THEN IF self.useTagHeader
           THEN [logOptions EXCEPT !.headers.XLogglyTag = StringV(Join(tags.list))]
           ELSE [logOptions EXCEPT !.uri.appended =
                   Concat(@, Concat(Str(<<"/", "t", "a", "g", "/">>),
                                    Concat(Join(tags.list), Str(<<"/">>))))]
    ELSE logOptions

\* Lines 181-189: logOptions with the tags attached.
AttachTags(self, logOptions, tags) ==
  IF tags # NULL /\ tags.list # <<>>
    THEN IF self.useTagHeader
           THEN [logOptions EXCEPT !.headers.XLogglyTag = StringV(Join(tags.list))]
           ELSE [logOptions EXCEPT !.uri.appended =
                   Concat(@, Concat(Str(<<"/", "t", "a", "g", "/">>),
                                    Concat(Join(tags.list), Str(<<"/">>))))]
    ELSE logOptions

\* log(msg, tags, callback): what the call does up to its hand-over to
\* common.loggly.  tags is null, a string, an array or (the callback in the
\* tags position) a function.  The result: whether the call threw, the
\* truncatedMessageObject, what tagFilter returned for the tags, the
\* logOptions handed over, whether a callback goes with them, and this as
\* the call leaves it.
log(self, msg, tags, callback) ==
  LET step == TruncationStep(msg)
  IN IF IsThrown(step)
       THEN [raised |-> TRUE, truncatedMessageObject |-> NULL, filtered |-> NULL,
             logOptions |-> NULL, callback |-> FALSE, self |-> self]
       ELSE
         LET shift == ~callback /\ tags.kind = "function"
             cb == IF shift THEN TRUE ELSE callback
             tags1 == IF shift THEN NULL ELSE tags
             body == Body(self, step.msg)
             logOptions ==
               [uri |-> IF self.isBulk THEN self.urls.bulk ELSE self.urls.log,
                method |-> "POST",
                body |-> body,
                isBulk |-> self.isBulk,
                headers |-> [host |-> self.host,
                             contentType |-> IF self.json THEN "application/json"
                                                          ELSE "text/plain",
                             XLogglyTag |-> NULL]]
             r == ResolveTags(self, tags1)
         IN [raised |-> FALSE,
             truncatedMessageObject |-> step.truncatedMessageObject,
             filtered |-> r.filtered,
             logOptions |-> AttachTags(self, logOptions, r.tags),
             callback |-> cb,
             self |-> [self EXCEPT !.tags = r.thisTags]]

----------------------------------------------------------------------------
(* The completion handler log passes to common.loggly (lines 195-212) *)

\* new Error(message)
ErrorV(message) == [kind |-> "Error", message |-> message]

\* One call of the callback: callback(err, result).
Invocation(err, result) == [err |-> err, result |-> result]

\* The catch block: the callback, if any, is called with the Error; an
\* exception of the callback leaves the handler.
CatchBlock(o, callback, callbackThrows) ==
  IF callback
    THEN [o EXCEPT !.invocations = Append(@, Invocation(ErrorV("Unspecified error from Loggly"), NULL)),
                   !.uncaught = callbackThrows]
    ELSE o

\* function (res, body) { try { ... } catch (ex) { ... } }: the handler run
\* on a response; callback says whether log was given one, callbackThrows
\* whether the callback throws when called, listenerThrows whether a 'log'
\* listener does.  The result: the invocations of the
\* callback in order, whether 'log' was emitted, whether the status line
\* went to the console, whether an exception left the handler.
Completion(res, body, callback, callbackThrows, listenerThrows) ==
  LET o0 == [invocations |-> <<>>, emitted |-> FALSE, console |-> FALSE,
             uncaught |-> FALSE]
  IN IF body # <<>> /\ res.statusCode = 200
       THEN LET result == JSONParse(body)
            IN IF IsThrown(result) THEN CatchBlock(o0, callback, callbackThrows)
               ELSE LET o1 == [o0 EXCEPT !.emitted = TRUE]
                    IN IF listenerThrows
                         THEN CatchBlock(o1, callback, callbackThrows)
                       ELSE IF callback
                         THEN LET o2 == [o1 EXCEPT !.invocations =
                                           Append(@, Invocation(NULL, result))]
                              IN IF callbackThrows
                                   THEN CatchBlock(o2, callback, callbackThrows)
                                   ELSE o2
                       ELSE o1
       ELSE [o0 EXCEPT !.console = TRUE]

----------------------------------------------------------------------------
(* The inputs of the model *)

A(n) == Rep("a", n)

\* Messages: strings below, at and above EVENT_SIZE bytes, in one-, two- and
\* three-byte code units; objects below and above it; an object that refers
\* to itself; arrays whose elements fit each and fit or do not fit together.
Strings ==
  { Str(<<"a">>), Str(<<"a", DQ, "b">>),
    A(EVENT_SIZE), A(EVENT_SIZE + 1), A(2 * EVENT_SIZE),
    Rep("U+00E9", 600000), Concat(A(EVENT_SIZE - 1), Rep("U+20AC", 1)) }

Objects ==
  { ObjectV(Str(<<"a">>), StringV(Str(<<"1">>)), FALSE),
    ObjectV(Str(<<"a">>), StringV(A(EVENT_SIZE)), FALSE),
    ObjectV(Str(<<"a">>), StringV(Str(<<"1">>)), TRUE) }

Arrays ==
  { ArrayV(<<StringV(Str(<<"a">>)), StringV(Str(<<"b">>))>>),
    ArrayV(<<StringV(Str(<<"a">>)), ObjectV(Str(<<"a">>), StringV(Str(<<"1">>)), FALSE)>>),
    ArrayV(<<StringV(A(600000)), StringV(Rep("b", 600000))>>) }

Messages == {StringV(s) : s \in Strings} \cup Objects \cup Arrays

SmallMessage == StringV(Str(<<"a">>))

\* Tag candidates: "ok-1" and "bad tag!"; the tags arguments add "a" (one
\* code unit), "a.", "-a", 64 and 65 letters.
TagOk == Str(<<"o", "k", "-", "1">>)
TagBad == Str(<<"b", "a", "d", " ", "t", "a", "g", "!">>)

TagArguments ==
  { NULL, [kind |-> "function"], StringV(<<>>), StringV(TagOk), StringV(TagBad),
    ArrayV(<<>>),
    ArrayV(<<StringV(TagOk), StringV(TagBad)>>),
    ArrayV(<<StringV(A(TAG_MAX_LENGTH)), StringV(Str(<<"a">>)), StringV(Str(<<"a", ".">>))>>),
    ArrayV(<<StringV(A(TAG_MAX_LENGTH + 1)), StringV(Str(<<"-", "a">>))>>) }

\* The calls of log: every message without tags and with a callback; the
\* small message with every tags argument, with and without a callback (a
\* function in the tags position is the callback of a call that names no
\* other); an oversized message and an object with tags.
CallArguments ==
  {<<m, NULL, TRUE>> : m \in Messages}
    \cup {a \in {SmallMessage} \X TagArguments \X BOOLEAN :
            a[2].kind = "function" => ~a[3]}
    \cup { <<StringV(A(EVENT_SIZE + 1)), ArrayV(<<StringV(TagOk), StringV(TagBad)>>), FALSE>>,
           <<ObjectV(Str(<<"a">>), StringV(Str(<<"1">>)), FALSE), StringV(TagOk), TRUE>> }

OptionTags == {NULL, ArrayV(<<StringV(Str(<<"d", "1">>))>>), ArrayV(<<StringV(Str(<<"!">>))>>)}

Options ==
  [json : BOOLEAN, namesUseTagHeader : BOOLEAN, useTagHeader : BOOLEAN,
   isBulk : BOOLEAN, tags : OptionTags]

\* The responses of the delivery layer.
StatusCodes == {200, 500}
AckBody == Encode(ObjectV(Str(<<"r">>), StringV(Str(<<"o", "k">>)), FALSE))
ResponseBodies == {<<>>, AckBody, Str(<<"b", "a", "d">>)}

----------------------------------------------------------------------------
(* The state machine *)

VARIABLES
  self,         \* the client
  constructed,  \* the client as the constructor left it
  ncalls,       \* the number of log calls made
  call,         \* the last log call: its arguments, what it did, and
                \* whether a call before it supplied tags
  inflight,     \* the requests handed to common.loggly and not yet answered
  completion    \* the last run of the completion handler

vars == <<self, constructed, ncalls, call, inflight, completion>>

Init ==
  /\ \E options \in Options : self = Loggly(options)
  /\ constructed = self
  /\ ncalls = 0
  /\ call = NULL
  /\ inflight = <<>>
  /\ completion = NULL

\* client.log(msg, tags, callback)
Log(msg, tags, callback) ==
  /\ ncalls < MaxCalls
  /\ \E r \in {log(self, msg, tags, callback)} :
        /\ self' = r.self
        /\ call' = [kind |-> "call", msg |-> msg, tags |-> tags, callback |-> callback,
                    raised |-> r.raised,
                    truncatedMessageObject |-> r.truncatedMessageObject,
                    filtered |-> r.filtered,
                    logOptions |-> r.logOptions,
                    taggedBefore |-> call.kind = "call" /\
                                     (call.taggedBefore \/ call.filtered # NULL)]
        /\ inflight' = IF r.raised THEN inflight
                       ELSE Append(inflight, [callback |-> r.callback])
  /\ ncalls' = ncalls + 1
  /\ UNCHANGED <<constructed, completion>>

\* The delivery layer answers the oldest request: the handler runs.
Respond(statusCode, body, callbackThrows, listenerThrows) ==
  /\ inflight # <<>>
  /\ completion' =
       [kind |-> "completion", statusCode |-> statusCode, body |-> body,
        callback |-> Head(inflight).callback,
        outcome |-> Completion([statusCode |-> statusCode], body,
                               Head(inflight).callback, callbackThrows, listenerThrows)]
  /\ inflight' = Tail(inflight)
  /\ UNCHANGED <<self, constructed, ncalls, call>>

Next ==
  \/ \E a \in CallArguments : Log(a[1], a[2], a[3])
  \/ \E statusCode \in StatusCodes, body \in ResponseBodies,
        callbackThrows \in BOOLEAN, listenerThrows \in BOOLEAN :
       Respond(statusCode, body, callbackThrows, listenerThrows)

Spec == Init /\ [][Next]_vars

----------------------------------------------------------------------------
(* Properties *)

MessageKey == Str(<<"m", "e", "s", "s", "a", "g", "e">>)

\* A log call was made and returned (it did not throw).
Returned1 == call.kind = "call" /\ ~call.raised

\* The bodies of a request: the body, or the elements of a bulk body.
Bodies(body) ==
  IF body.kind = "array" THEN {body.items[i].str : i \in 1..Len(body.items)}
  ELSE {body.str}

\* C1: every body log hands to the delivery layer has at most EVENT_SIZE
\* bytes, for every message and either format mode.
C1_BodyWithinEventSize ==
  Returned1 =>
    \A b \in Bodies(call.logOptions.body) : ByteLength(b) <= EVENT_SIZE

\* C2: for a text message of more than EVENT_SIZE bytes truncateLargeMessage
\* returns a message of exactly EVENT_SIZE bytes, flagged as truncated.
C2_TruncatedToExactlyEventSize ==
  (Returned1 /\ call.msg.kind = "string" /\ ByteLength(call.msg.str) > EVENT_SIZE) =>
    /\ call.truncatedMessageObject.isMessageTruncated
    /\ ByteLength(call.truncatedMessageObject.message) = EVENT_SIZE

\* A valid tag: non-empty, at most 64 code units, a word character followed
\* by one or more word, hyphen, underscore or dot characters and nothing else.
ValidTag(tag) ==
  /\ tag # <<>>
  /\ Length(tag) <= TAG_MAX_LENGTH
  /\ Length(tag) >= 2
  /\ CharAt(tag, 0) \in WordUnits
  /\ Units(tag) \subseteq SolidUnits

\* The candidates of a tags argument, in order.
CandidatesOf(tags) ==
  IF tags.kind = "array" THEN [i \in 1..Len(tags.items) |-> tags.items[i].str]
  ELSE <<tags.str>>

\* C3: tagFilter returns exactly the valid candidates, in input order.
C3_TagFilterKeepsExactlyValid ==
  (Returned1 /\ call.filtered # NULL) =>
    call.filtered.list = SelectSeq(CandidatesOf(call.tags), ValidTag)

\* C4: a log call whose message refers to itself does not raise and hands a
\* request to the delivery layer.
C4_CyclicMessageNeverRaises ==
  (call.kind = "call" /\ IsCyclic(call.msg)) =>
    ~call.raised /\ call.logOptions # NULL

\* A structured message: an object, or an array that is not the sequence of
\* messages of a bulk-mode call.
StructuredMessage ==
  /\ call.kind = "call"
  /\ call.msg.kind \in {"object", "array"}
  /\ ~(constructed.isBulk /\ call.msg.kind = "array")
  /\ ~IsCyclic(call.msg)

\* The body is one text and decodes to v.
BodyDecodesTo(v) ==
  /\ ~call.raised
  /\ call.logOptions.body.kind = "string"
  /\ JSONParse(call.logOptions.body.str) = v

PreparedAlone(m) == serialize(constructed, TruncationStep(m).msg)

\* C6: in bulk mode a sequence of n messages gives n bodies, the i-th the
\* i-th message prepared on its own.
C6_BulkBodiesPerMessage ==
  (call.kind = "call" /\ constructed.isBulk /\ call.msg.kind = "array"
     /\ ~IsCyclic(call.msg)) =>
    /\ ~call.raised
    /\ call.logOptions.body.kind = "array"
    /\ Len(call.logOptions.body.items) = Len(call.msg.items)
    /\ \A i \in 1..Len(call.msg.items) :
         call.logOptions.body.items[i].str = PreparedAlone(call.msg.items[i])

\* The effective tag set of the last call: the defaults resolved at
\* construction, then the resolved tags of the call.
EffectiveTags ==
  (IF constructed.tags = NULL THEN <<>> ELSE constructed.tags.list)
    \o (IF call.tags.kind \in {"string", "array"} THEN tagFilter(call.tags) ELSE <<>>)

TagPath == Concat(Str(<<"/", "t", "a", "g", "/">>), Concat(Join(EffectiveTags), Str(<<"/">>)))

\* The destination the client was constructed with, for its mode.
Destination == IF constructed.isBulk THEN constructed.urls.bulk ELSE constructed.urls.log

\* C7: a non-empty effective tag set is carried comma-joined in exactly one
\* place, the X-LOGGLY-TAG header with useTagHeader and otherwise the
\* /tag/<tags>/ suffix of the URI; an empty one leaves neither.
C7_TagsInExactlyOnePlace ==
  Returned1 =>
    LET header == call.logOptions.headers.XLogglyTag
        uri == call.logOptions.uri
    IN /\ uri.parts = Destination.parts
       /\ IF EffectiveTags = <<>>
            THEN header = NULL /\ uri.appended = <<>>
          ELSE IF constructed.useTagHeader
            THEN header = StringV(Join(EffectiveTags)) /\ uri.appended = <<>>
          ELSE header = NULL /\ uri.appended = TagPath

C7_Witness ==
  /\ Returned1
  /\ Len(EffectiveTags) >= 2
  /\ ~constructed.useTagHeader
  /\ call.logOptions.uri.appended = TagPath
  /\ call.logOptions.headers.XLogglyTag = NULL

\* A response that is a delivery failure: not status 200, an empty body, or
\* a body that does not parse.
DeliveryFailure ==
  \/ completion.statusCode # 200
  \/ completion.body = <<>>
  \/ IsThrown(JSONParse(completion.body))

\* C8: when log was given a callback and the response arrived, the callback
\* has been invoked, and on a delivery failure it has been invoked with an error.
C8_CallbackInvokedForEveryResponse ==
  (completion.kind = "completion" /\ completion.callback) =>
    /\ Len(completion.outcome.invocations) >= 1
    /\ DeliveryFailure =>
         \E i \in 1..Len(completion.outcome.invocations) :
           completion.outcome.invocations[i].err # NULL

\* C9: the client is as the constructor left it, and the request of a call is
\* the one the constructed client builds from that call's arguments alone.
C9_ClientUnchangedByLog ==
  /\ self = constructed
  /\ Returned1 =>
       call.logOptions = log(constructed, call.msg, call.tags, call.callback).logOptions

C9_Witness ==
  /\ ncalls = 2
  /\ Returned1
  /\ call.taggedBefore
  /\ constructed.tags # NULL
  /\ call.tags = NULL
  /\ call.logOptions.headers.XLogglyTag = StringV(Join(constructed.tags.list))

\* C10: the callback is invoked at most once for a response.
C10_CallbackAtMostOnce ==
  completion.kind = "completion" => Len(completion.outcome.invocations) <= 1

=============================================================================
